---- MODULE Spec2Model ----
(***************************************************************************)
(* A model of src/src/fig_data_challenge/main.py: a batch job that reads   *)
(* two spreadsheet sheets, cleans and normalises them into five frames and *)
(* loads the frames into a PostgreSQL schema, resolving foreign keys by     *)
(* reading the generated primary keys back after each parent insert.       *)
(*                                                                         *)
(* Text cells are sequences of one-character strings, so that the byte     *)
(* order polars sorts by and the date format chrono parses are computed    *)
(* and not assumed.  A frame whose row order the job never observes (the   *)
(* result of unique(), of a join, of a read without ORDER BY that is only  *)
(* joined against) is a set or a bag of rows; a frame whose order matters  *)
(* (the sheets, the sorted restaurants, the order rows are inserted in) is *)
(* a sequence.                                                             *)
(***************************************************************************)
EXTENDS Integers, Sequences, FiniteSets, Bags, TLC

VARIABLES
    pc,                 \* the statement the job is at
    run,                \* which execution of the job this is (1, 2, ...)
    menu_items_raw,     \* sheet 'Restaurant Menu Items', in sheet order
    categories_raw,     \* sheet 'Reference categories', in sheet order
    fig_sheet,          \* the sheet that carries column 'Fig Category 1'
    menu_items_clean,   \* the cleaned frame
    restaurants,        \* the five normalised frames
    menu_items,
    pictures,
    ingredients,
    allergens,
    db,                 \* the five tables of schema restaurant_data
    restaurants_id_map, \* name -> id, built from the restaurants read-back
    menu_items_pk,      \* the menu_items read-back
    db0,                \* history: the database when this run started
    trace,              \* history: the loader statements this run completed
    others              \* deletions other database sessions may still make

vars == <<pc, run, menu_items_raw, categories_raw, fig_sheet, menu_items_clean,
          restaurants, menu_items, pictures, ingredients, allergens,
          db, restaurants_id_map, menu_items_pk, db0, trace, others>>

sheetVars == <<menu_items_raw, categories_raw, fig_sheet>>
frameVars == <<restaurants, menu_items, pictures, ingredients, allergens>>
loadVars  == <<db, restaurants_id_map, menu_items_pk, db0, trace, others>>

----------------------------------------------------------------------------
(* Bounds of the model.                                                    *)

MaxRawRows == 2     \* rows of the menu-items sheet
MaxRefRows == 2     \* rows of the reference sheet
MaxRows    == 2     \* rows of the cleaned frame the loader starts from
MaxRuns    == 2     \* executions of the job against the same database
MaxDeletes == 1     \* rows other sessions delete while the job runs

----------------------------------------------------------------------------
(* Values.                                                                 *)

\* A missing cell of a text column (polars null, SQL NULL).
Null == <<"NULL">>

\* A cell of a nullable Int64 / INTEGER column: NullId is the null, Some(n)
\* the integer n.
NullId == << >>

Some(n) == <<n>>

\* The characters the model's texts use, in ascending byte order.
Ascii == <<"\t", "\n", "\f", "\r", " ", "+", "-", "/", "0", "1", "2", "3", "4", "5", "6", "7", "8", "9",
           "A", "B", "D", "E", "F", "J", "M", "N", "O", "S", "T",
           "a", "b", "d", "e", "f", "g", "i", "l", "m", "n", "o", "p", "r",
           "s", "t", "u", "w", "y">>

Ord(c) == CHOOSE i \in 1..Len(Ascii) : Ascii[i] = c

Digits == {"0", "1", "2", "3", "4", "5", "6", "7", "8", "9"}

DigitVal(c) == Ord(c) - Ord("0")

Burger  == <<"B", "u", "r", "g", "e", "r">>
Fries   == <<"F", "r", "i", "e", "s">>
Joe     == <<"J", "o", "e">>
al      == <<"a", "l">>
Two     == <<"2">>
Beef    == <<"b", "e", "e", "f">>
Bun     == <<"b", "u", "n">>
Nuts    == <<"n", "u", "t", "s">>
Url     == <<"u", "r", "l">>
Entrees == <<"E", "n", "t", "r", "e", "e", "s">>
Main    == <<"M", "a", "i", "n">>

DateOk       == <<"N", "e", "w", " ", "-", " ", "0", "3", "/", "1", "5", "/", "2", "0", "2", "4">>
DateLeap     == <<"N", "e", "w", " ", "-", " ", "2", "/", "2", "9", "/", "2", "0", "2", "4">>
DateLoose    == <<"N", "e", "w", "\t", "-", "3", "/", " ", "1", "5", "/", "+", "2", "0", "2", "4">>
DateBadDay   == <<"N", "e", "w", " ", "-", " ", "0", "2", "/", "3", "0", "/", "2", "0", "2", "3">>
DateBadText  == <<"T", "B", "D">>

----------------------------------------------------------------------------
(* Series.str.to_datetime('New - %m/%d/%Y'): chrono's strptime over the    *)
(* items  "New"  space  "-"  space  %m  "/"  %d  "/"  %Y.                  *)

\* The years chrono's NaiveDate holds.
MinYear == -262143

MaxYear == 262142

\* The characters of Unicode's White_Space, which str::trim_start removes: the
\* blank, tab, line feed, form feed, carriage return, and those written here
\* by their code points (vertical tab, next line, no-break space, ...).
WhiteSpace ==
    {" ", "\t", "\n", "\f", "\r", "U+000B", "U+0085", "U+00A0", "U+1680",
     "U+2000", "U+2001", "U+2002", "U+2003", "U+2004", "U+2005", "U+2006",
     "U+2007", "U+2008", "U+2009", "U+200A", "U+2028", "U+2029", "U+202F",
     "U+205F", "U+3000"}

RECURSIVE SkipSpaces(_, _)
\* The first position from i on that holds no white space.
SkipSpaces(s, i) ==
    IF i <= Len(s) /\ s[i] \in WhiteSpace THEN SkipSpaces(s, i + 1) ELSE i

RECURSIVE CountDigits(_, _, _)
\* How many digits s holds from position i on, at most max of them.
CountDigits(s, i, max) ==
    IF max = 0 \/ i > Len(s) \/ s[i] \notin Digits THEN 0
    ELSE 1 + CountDigits(s, i + 1, max - 1)

RECURSIVE Number(_, _, _)
\* The value of the n digits of s that start at position i.
Number(s, i, n) ==
    IF n = 0 THEN 0
    ELSE 10 * Number(s, i, n - 1) + DigitVal(s[i + n - 1])

RECURSIVE YearNumber(_, _, _)
\* The same for the digits of a signed year, of which there may be many: a
\* value past MaxYear, which no date has, is not carried further.
YearNumber(s, i, n) ==
    IF n = 0 THEN 0
    ELSE LET front == YearNumber(s, i, n - 1)
         IN IF front > MaxYear THEN front
            ELSE 10 * front + DigitVal(s[i + n - 1])

IsLeap(y) == (y % 4 = 0 /\ y % 100 # 0) \/ y % 400 = 0

DaysIn(y, m) ==
    IF m = 2 THEN (IF IsLeap(y) THEN 29 ELSE 28)
    ELSE IF m \in {4, 6, 9, 11} THEN 30 ELSE 31

\* The scan of a text: the position of the next character to read and the
\* numbers read so far.  Each item of the format maps the scan reached (a set
\* of one scan) to the scan after it, or to none when the text does not match.
ScanStart == {[pos |-> 1, month |-> 0, day |-> 0, year |-> 0]}

\* A literal of the format: the text continues with it.
ScanLiteral(s, scans, lit) ==
    {[st EXCEPT !.pos = @ + Len(lit)] :
        st \in {x \in scans : /\ x.pos + Len(lit) - 1 <= Len(s)
                              /\ SubSeq(s, x.pos, x.pos + Len(lit) - 1) = lit}}

\* A space of the format: any run of white space of the text, an empty one too.
ScanSpace(s, scans) == {[st EXCEPT !.pos = SkipSpaces(s, @)] : st \in scans}

\* %m, %d: white space is passed over, then one or two digits are read.
ScanNumber(s, scans, field) ==
    {LET i == SkipSpaces(s, st.pos)
         n == CountDigits(s, i, 2)
     IN [st EXCEPT !.pos = i + n, ![field] = Number(s, i, n)] :
        st \in {x \in scans : CountDigits(s, SkipSpaces(s, x.pos), 2) >= 1}}

\* Where the digits of the year start, a sign passed over.
YearFrom(s, i) == IF i <= Len(s) /\ s[i] \in {"+", "-"} THEN i + 1 ELSE i

\* How many digits the year takes: up to four, any number after a sign.
YearDigits(s, i) ==
    CountDigits(s, YearFrom(s, i), IF YearFrom(s, i) = i THEN 4 ELSE Len(s))

\* %Y: white space is passed over, then a sign may come, then the digits.
ScanYear(s, scans) ==
    {LET i == SkipSpaces(s, st.pos)
         v == YearNumber(s, YearFrom(s, i), YearDigits(s, i))
     IN [st EXCEPT !.pos = YearFrom(s, i) + YearDigits(s, i),
                   !.year = IF s[i] = "-" THEN 0 - v ELSE v] :
        st \in {x \in scans : YearDigits(s, SkipSpaces(s, x.pos)) >= 1}}

\* The datetime of a text in format 'New - %m/%d/%Y', as <<Y, m, d, H, M, S>>;
\* Null when the text does not parse.  White space may be absent or repeated
\* where the format has a blank and may precede each number; %m and %d take one or two
\* digits; %Y takes one to four digits, or a sign and any number of digits;
\* nothing may follow the year; the date must exist.
StrToDatetime(s) ==
    LET new   == ScanLiteral(s, ScanStart, <<"N", "e", "w">>)
        dash  == ScanLiteral(s, ScanSpace(s, new), <<"-">>)
        month == ScanNumber(s, ScanSpace(s, dash), "month")
        day   == ScanNumber(s, ScanLiteral(s, month, <<"/">>), "day")
        year  == ScanYear(s, ScanLiteral(s, day, <<"/">>))
        dates == {st \in year : /\ st.pos = Len(s) + 1
                                /\ st.year \in MinYear..MaxYear
                                /\ st.month \in 1..12
                                /\ st.day \in 1..DaysIn(st.year, st.month)}
    IN IF dates = {} THEN Null
       ELSE LET st == CHOOSE x \in dates : TRUE
            IN <<st.year, st.month, st.day, 0, 0, 0>>

\* The parser on the model's date texts and on neighbours of them.
StrToDatetimeLemma ==
    /\ StrToDatetime(DateOk) = <<2024, 3, 15, 0, 0, 0>>
    /\ StrToDatetime(DateLeap) = <<2024, 2, 29, 0, 0, 0>>
    /\ StrToDatetime(DateLoose) = <<2024, 3, 15, 0, 0, 0>>
    /\ StrToDatetime(DateBadDay) = Null
    /\ StrToDatetime(DateBadText) = Null
    /\ StrToDatetime(SubSeq(DateOk, 1, 6)) = Null
    /\ StrToDatetime(DateOk \o <<" ">>) = Null
    /\ StrToDatetime(DateOk \o <<"0">>) = Null
    /\ StrToDatetime(<<" ">> \o DateOk) = Null
    /\ StrToDatetime(<<"N", "e", "w", "U+00A0", "-", "\n", "0", "3", "/", "\t", "1",
                       "5", "/", "\r", "2", "0", "2", "4">>) = <<2024, 3, 15, 0, 0, 0>>
    /\ StrToDatetime(<<"N", "e", "w", " ", "-", " ", "0", "\t", "3", "/", "1", "5",
                       "/", "2", "0", "2", "4">>) = Null
    /\ SkipSpaces(<<" ", "\t", " ", "x">>, 1) = 4
    /\ StrToDatetime(SubSeq(DateOk, 1, 4) \o <<" ">> \o SubSeq(DateOk, 5, 16))
          = <<2024, 3, 15, 0, 0, 0>>
    /\ StrToDatetime(SubSeq(DateOk, 1, 12) \o <<"-">> \o SubSeq(DateOk, 13, 16))
          = <<-2024, 3, 15, 0, 0, 0>>
    /\ StrToDatetime(SubSeq(DateOk, 1, 12) \o <<"+", "0">> \o SubSeq(DateOk, 13, 16))
          = <<2024, 3, 15, 0, 0, 0>>
    /\ StrToDatetime(SubSeq(DateOk, 1, 6) \o <<"+">> \o SubSeq(DateOk, 7, 16)) = Null
    /\ StrToDatetime(SubSeq(DateOk, 1, 6) \o <<"1", "3">> \o SubSeq(DateOk, 9, 16)) = Null

\* datetime(2023, 1, 1, 0, 0, 0, 0)
DefaultValidFrom == <<2023, 1, 1, 0, 0, 0>>

\* to_datetime is strict (the default): a text that does not parse raises.
ToDatetimeRaises(series) ==
    \E i \in 1..Len(series) : series[i] # Null /\ StrToDatetime(series[i]) = Null

\* .str.to_datetime(...).fill_null(...) of a column in which every text parses.
ValidFromSeries(series) ==
    [i \in 1..Len(series) |->
        IF series[i] = Null THEN DefaultValidFrom ELSE StrToDatetime(series[i])]

----------------------------------------------------------------------------
(* Cleaning: join, with_columns, filter, select, rename, unique.           *)

\* The reference rows a menu row joins to (null keys join to nothing).
Matches(m, ref) ==
    SelectSeq(ref, LAMBDA c : /\ m.store # Null /\ m.pcat # Null
                              /\ c.rname = m.store /\ c.rcat = m.pcat)

\* One joined row: the menu row, its position in the sheet, and the
\* 'Fig Category 1' the select will see: the menu sheet's column when it has
\* one (the reference sheet's is then 'Fig Category 1_right'), else the
\* reference sheet's, null for an unmatched row.
JoinedRow(m, c, sheet) ==
    [name |-> m.name, ingredients |-> m.ingredients, allergens |-> m.allergens,
     picture |-> m.picture, store |-> m.store,
     fig |-> IF sheet = "menu" THEN m.fig ELSE c.fig]

NoMatch == [rname |-> Null, rcat |-> Null, fig |-> Null]

RECURSIVE LeftJoin(_, _, _)
\* menu.join(ref, how='left'): per menu row in order, one row per match, or
\* one row with null reference columns.
LeftJoin(menu, ref, sheet) ==
    IF menu = <<>> THEN <<>>
    ELSE LET m  == Head(menu)
             ms == Matches(m, ref)
             rs == IF ms = <<>> THEN <<NoMatch>> ELSE ms
         IN [i \in 1..Len(rs) |-> JoinedRow(m, rs[i], sheet)]
            \o LeftJoin(Tail(menu), ref, sheet)

\* with_columns(series): the series is taken from the sheet, not from the join
\* result, so it is laid beside the joined rows by position.  A series of
\* another length than the frame raises; one of length 1 is broadcast or
\* raises, by the version of polars.
WithColumnsRaises(joined, series) ==
    Len(series) # Len(joined)

MayBroadcast(joined, series) ==
    Len(series) = 1 /\ Len(joined) > 1

WithValidFrom(joined, series) ==
    [i \in 1..Len(joined) |->
        [name |-> joined[i].name, ingredients |-> joined[i].ingredients,
         allergens |-> joined[i].allergens, picture |-> joined[i].picture,
         restaurant |-> joined[i].store, category |-> joined[i].fig,
         valid_from |-> IF Len(series) = 1 THEN series[1] ELSE series[i]]]

\* The filter without its first condition.
KeepAnyName(r) == r.ingredients # Null /\ r.restaurant # Null

\* filter(Product Name, Ingredients on Product Page, Store are not null)
Keep(r) == r.name # Null /\ r.ingredients # Null /\ r.restaurant # Null

\* filter(...).select(...).rename(...).unique(), on the rows with valid_from.
FilterSelectUnique(rows) ==
    {rows[i] : i \in {j \in 1..Len(rows) : Keep(rows[j])}}

DateColumn(menu) == [i \in 1..Len(menu) |-> menu[i].date]

\* The cleaning statement raises.
CleanRaises(menu, ref, sheet, broadcast) ==
    \/ ToDatetimeRaises(DateColumn(menu))
    \/ /\ WithColumnsRaises(LeftJoin(menu, ref, sheet), DateColumn(menu))
       /\ ~(broadcast /\ MayBroadcast(LeftJoin(menu, ref, sheet), DateColumn(menu)))

\* menu_items_clean, when the statement does not raise.
Cleaned(menu, ref, sheet) ==
    FilterSelectUnique(
        WithValidFrom(LeftJoin(menu, ref, sheet), ValidFromSeries(DateColumn(menu))))

----------------------------------------------------------------------------
(* Normalisation: the five projections.                                    *)

\* Byte-wise order of two texts, as polars sorts a String column.
RECURSIVE LexLess(_, _)
LexLess(a, b) ==
    IF b = <<>> THEN FALSE
    ELSE IF a = <<>> THEN TRUE
    ELSE IF Ord(Head(a)) # Ord(Head(b)) THEN Ord(Head(a)) < Ord(Head(b))
    ELSE LexLess(Tail(a), Tail(b))

\* The orders a frame of the rows S can be in.
Orders(S) ==
    {f \in [1..Cardinality(S) -> S] : \A i, j \in DOMAIN f : i # j => f[i] # f[j]}

RECURSIVE InsertSorted(_, _)
InsertSorted(x, s) ==
    IF s = <<>> THEN <<x>>
    ELSE IF LexLess(x, Head(s)) THEN <<x>> \o s
    ELSE <<Head(s)>> \o InsertSorted(x, Tail(s))

\* The frame left as unique() returned it.
Unsorted(s) == s

RECURSIVE SortByName(_)
\* .sort('name') of a one-column frame.
SortByName(s) ==
    IF s = <<>> THEN <<>> ELSE InsertSorted(Head(s), SortByName(Tail(s)))

\* select('restaurant').rename(...).unique(): the distinct names, in any order.
RestaurantNames(clean) == {r.restaurant : r \in clean}

MenuItemsOf(clean) ==
    {[name |-> r.name, restaurant |-> r.restaurant, category |-> r.category] : r \in clean}

PicturesOf(clean) ==
    {[product |-> r.name, restaurant |-> r.restaurant, text |-> r.picture] : r \in clean}

IngredientsOf(clean) ==
    {[product |-> r.name, restaurant |-> r.restaurant, text |-> r.ingredients] : r \in clean}

AllergensOf(clean) ==
    {[product |-> r.name, restaurant |-> r.restaurant, text |-> r.allergens] : r \in clean}

----------------------------------------------------------------------------
(* The database.                                                           *)

\* The schema when the job first runs: five empty tables.  rseq and mseq are
\* the last values of the sequences behind restaurants.id and menu_items.id.
\* A child table's own id is generated and never read: the table is the bag
\* of its (item_id, text) rows.
EmptyDb ==
    [restaurants |-> {}, menu_items |-> {}, rseq |-> 0, mseq |-> 0,
     ingredients |-> EmptyBag, allergens |-> EmptyBag, pictures |-> EmptyBag]

NoMap == [n \in {} |-> 0]

\* The columns declared without ForeignKey.
ForeignKeyUnchecked(id, parent) == TRUE

\* ForeignKey('restaurants.id'), ForeignKey('menu_items.id'): the referenced
\* row exists.
ForeignKeyOk(id, parent) == id = NullId \/ \E p \in parent : Some(p.id) = id

\* The columns declared nullable.
Nullable(id) == TRUE

\* nullable=False
NotNullOk(id) == id # NullId

\* pl.read_database('select * from ...'): the rows, in an order the database
\* chooses.
ReadDatabase(table) == Orders(table)

RECURSIVE ZipDict(_)
\* {k: v for k, v in zip(pk['name'], pk['id'])}: a later row replaces an
\* earlier one of the same name.
ZipDict(rows) ==
    IF rows = <<>> THEN NoMap
    ELSE LET n     == Len(rows)
             m     == ZipDict(SubSeq(rows, 1, n - 1))
             last  == rows[n]
         IN [k \in DOMAIN m \cup {last.name} |->
                IF k = last.name THEN last.id ELSE m[k]]

\* The maps ZipDict builds over the orders the database may return the rows
\* in: every name is mapped to the id of one of its rows, whichever comes
\* last (ReadBackLemma below).
RestaurantsIdMaps(table) ==
    {m \in [{r.name : r \in table} -> {r.id : r \in table}] :
        \A n \in DOMAIN m : \E r \in table : r.name = n /\ r.id = m[n]}

\* The cast of a text cell to Int64: an optional sign and digits, nothing
\* else, give the integer; any other text gives null.  (Names of at most
\* nine digits: the integers of the model are narrower than Int64.)
ToInt64(text) ==
    LET signed == text # << >> /\ text[1] \in {"+", "-"}
        from   == IF signed THEN 2 ELSE 1
        n      == CountDigits(text, from, Len(text))
    IN IF text = Null \/ n = 0 \/ from + n - 1 # Len(text) THEN NullId
       ELSE IF signed /\ text[1] = "-" THEN Some(0 - Number(text, from, n))
       ELSE Some(Number(text, from, n))

\* .replace(restaurants_id_map, return_dtype=pl.Int64) of one cell: the id of
\* a mapped name; an unmapped name keeps its value and is cast to Int64.
Replace(name, map) ==
    IF name \in DOMAIN map THEN Some(map[name]) ELSE ToInt64(name)

\* One row of menu_items_fk.
MenuItemFk(r, map) ==
    [restaurant_id |-> Replace(r.restaurant, map), name |-> r.name,
     category |-> r.category]

\* Order of .sort('restaurant_id', 'name'); nulls sort first.
FkRowLess(a, b) ==
    \/ a.restaurant_id = NullId /\ b.restaurant_id # NullId
    \/ /\ a.restaurant_id # NullId /\ b.restaurant_id # NullId
       /\ a.restaurant_id[1] < b.restaurant_id[1]
    \/ a.restaurant_id = b.restaurant_id /\ LexLess(a.name, b.name)

IsSortedFk(f) == \A i, j \in DOMAIN f : i < j => ~FkRowLess(f[j], f[i])

\* menu_items_fk: the rows of menu_items with the restaurant replaced, in an
\* order the sort can leave them in (rows equal in both keys in any order).
MenuItemsFkFrames(items, map) ==
    {f \in {[i \in DOMAIN o |-> MenuItemFk(o[i], map)] : o \in Orders(items)} :
        IsSortedFk(f)}

\* The join on the product alone.
JoinOnProductOnly(c, m, map) == m.name = c.product

\* The left join of a child frame against menu_items_pk on
\* (product, restaurant_id) = (name, restaurant_id): the ids one child row
\* gets, null when nothing matches (a null key matches nothing).
JoinKeysMatch(c, m, map) ==
    /\ m.name = c.product
    /\ Replace(c.restaurant, map) # NullId
    /\ m.restaurant_id = Replace(c.restaurant, map)

ItemIds(c, map, pk) ==
    LET ids == {Some(m.id) : m \in {x \in pk : JoinKeysMatch(c, x, map)}}
    IN IF ids = {} THEN {NullId} ELSE ids

\* ingredients_fk, allergens_fk, pictures_fk: the bag of (item_id, text) rows.
ChildFk(child, map, pk) ==
    LET hits   == UNION {{<<c, i>> : i \in ItemIds(c, map, pk)} : c \in child}
        row(x) == [item_id |-> x[2], text |-> x[1].text]
    IN [r \in {row(x) : x \in hits} |-> Cardinality({x \in hits : row(x) = r})]

\* The rows a write of restaurants adds: ids from the sequence, in frame order.
RestaurantRows(frame, seq) ==
    {[id |-> seq + i, name |-> frame[i]] : i \in DOMAIN frame}

MenuItemRows(frame, seq) ==
    {[id |-> seq + i, restaurant_id |-> frame[i].restaurant_id,
      name |-> frame[i].name, category |-> frame[i].category] : i \in DOMAIN frame}

\* The table's constraints accept the frame.
MenuItemsAccepted(frame, d) ==
    \A i \in DOMAIN frame :
        /\ NotNullOk(frame[i].restaurant_id)
        /\ ForeignKeyOk(frame[i].restaurant_id, d.restaurants)

ChildAccepted(frame, d) ==
    \A r \in BagToSet(frame) :
        /\ NotNullOk(r.item_id)
        /\ ForeignKeyOk(r.item_id, d.menu_items)

\* The restaurants read back before they are inserted.
LoaderStepsReadFirst ==
    <<"read_restaurants", "insert_restaurants", "insert_menu_items",
      "read_menu_items", "insert_ingredients", "insert_allergens",
      "insert_pictures">>

\* The statements of the loader, in program order.
LoaderSteps ==
    <<"insert_restaurants", "read_restaurants", "insert_menu_items",
      "read_menu_items", "insert_ingredients", "insert_allergens",
      "insert_pictures">>

StepAfter(step) ==
    LET i == CHOOSE k \in DOMAIN LoaderSteps : LoaderSteps[k] = step
    IN IF i = Len(LoaderSteps) THEN "done" ELSE LoaderSteps[i + 1]

\* The whole load in one transaction, rolled back by the exception.
OnFailureRollback(d, d0) == d0

\* What an uncaught exception leaves in the database: every statement
\* commits on its own and nothing is undone.
OnFailure(d, d0) == d

----------------------------------------------------------------------------
(* The sheets the cleaner is run on.                                       *)

SeqsUpTo(S, n) == UNION {[1..k -> S] : k \in 0..n}

\* The date cells: missing, a date written loosely, a date that does not exist.
Dates == {Null, DateLoose, DateBadDay}

\* Rows of the menu-items sheet.  Column 'Fig Category 1' is on this sheet or
\* on the reference sheet.
RawRows(sheet) ==
    [name : {Null, Burger}, ingredients : {Null, Beef}, allergens : {Nuts},
     picture : {Null}, store : {Null, Joe}, pcat : {Entrees},
     fig : IF sheet = "menu" THEN {Main} ELSE {Null},
     date : Dates]

\* Rows of the reference sheet.
RefRows(sheet) ==
    [rname : {Joe}, rcat : {Entrees}, fig : IF sheet = "menu" THEN {Null} ELSE {Main}]

InitFrames ==
    /\ restaurants = <<>>
    /\ menu_items = {}
    /\ pictures = {}
    /\ ingredients = {}
    /\ allergens = {}

InitLoad ==
    /\ db = EmptyDb
    /\ db0 = EmptyDb
    /\ restaurants_id_map = NoMap
    /\ menu_items_pk = {}
    /\ trace = <<>>

\* The job starts: the two sheets have been read.
InitSheets ==
    /\ pc = "clean"
    /\ run = 1
    /\ fig_sheet \in {"menu", "ref"}
    /\ menu_items_raw \in SeqsUpTo(RawRows(fig_sheet), MaxRawRows)
    /\ categories_raw \in SeqsUpTo(RefRows(fig_sheet), MaxRefRows)
    /\ menu_items_clean = {}
    /\ InitFrames
    /\ InitLoad
    /\ others = 0

----------------------------------------------------------------------------
(* The cleaner and the normaliser.                                         *)

\* Lines 67-104 complete.
CleanOk ==
    /\ pc = "clean"
    /\ \E broadcast \in BOOLEAN :
          /\ ~CleanRaises(menu_items_raw, categories_raw, fig_sheet, broadcast)
          /\ menu_items_clean' = Cleaned(menu_items_raw, categories_raw, fig_sheet)
    /\ pc' = "normalize"
    /\ UNCHANGED <<run, sheetVars, frameVars, loadVars>>

\* Lines 67-104 raise: the job ends with no frame built.
CleanRaise ==
    /\ pc = "clean"
    /\ \E broadcast \in BOOLEAN :
          CleanRaises(menu_items_raw, categories_raw, fig_sheet, broadcast)
    /\ pc' = "failed"
    /\ UNCHANGED <<run, sheetVars, menu_items_clean, frameVars, loadVars>>

\* Lines 108-141.
Normalize ==
    /\ pc = "normalize"
    /\ \E u \in Orders(RestaurantNames(menu_items_clean)) :
          restaurants' = SortByName(u)
    /\ menu_items' = MenuItemsOf(menu_items_clean)
    /\ pictures' = PicturesOf(menu_items_clean)
    /\ ingredients' = IngredientsOf(menu_items_clean)
    /\ allergens' = AllergensOf(menu_items_clean)
    /\ pc' = LoaderSteps[1]
    /\ UNCHANGED <<run, sheetVars, menu_items_clean, loadVars>>

NextClean == CleanOk \/ CleanRaise \/ Normalize

SpecClean == InitSheets /\ [][NextClean]_vars

----------------------------------------------------------------------------
(* The loader.                                                             *)

\* Rows of a cleaned frame: the three mandatory cells are never null.
CleanRows ==
    [name : {Burger, Fries}, ingredients : {Beef, Bun}, allergens : {Null, Nuts},
     picture : {Url}, restaurant : {Joe, al}, category : {Null, Main},
     valid_from : {DefaultValidFrom}]

\* The frames of at most MaxRows rows.
FramesOf(rows) ==
    UNION {{{f[i] : i \in 1..k} : f \in [1..k -> rows]} : k \in 0..MaxRows}

CleanFrames == FramesOf(CleanRows)

\* The cleaning statement has completed on some sheets and left one of frames.
InitCleanedIn(frames) ==
    /\ pc = "normalize"
    /\ run = 1
    /\ fig_sheet = "menu"
    /\ menu_items_raw = <<>>
    /\ categories_raw = <<>>
    /\ menu_items_clean \in frames
    /\ InitFrames
    /\ InitLoad

InitCleaned == InitCleanedIn(CleanFrames)

Init == InitCleaned /\ others = 0

Done(step) ==
    /\ trace' = Append(trace, step)
    /\ pc' = StepAfter(step)
    /\ UNCHANGED <<run, sheetVars, menu_items_clean, frameVars, db0, others>>

\* Lines 168-170.
InsertRestaurants ==
    /\ pc = "insert_restaurants"
    /\ db' = [db EXCEPT !.restaurants = @ \cup RestaurantRows(restaurants, db.rseq),
                        !.rseq = @ + Len(restaurants)]
    /\ UNCHANGED <<restaurants_id_map, menu_items_pk>>
    /\ Done("insert_restaurants")

\* Lines 172-173.
ReadRestaurants ==
    /\ pc = "read_restaurants"
    /\ restaurants_id_map' \in RestaurantsIdMaps(db.restaurants)
    /\ UNCHANGED <<db, menu_items_pk>>
    /\ Done("read_restaurants")

\* Lines 175-188.
InsertMenuItems ==
    /\ pc = "insert_menu_items"
    /\ \E menu_items_fk \in MenuItemsFkFrames(menu_items, restaurants_id_map) :
          /\ MenuItemsAccepted(menu_items_fk, db)
          /\ db' = [db EXCEPT !.menu_items = @ \cup MenuItemRows(menu_items_fk, db.mseq),
                              !.mseq = @ + Len(menu_items_fk)]
    /\ UNCHANGED <<restaurants_id_map, menu_items_pk>>
    /\ Done("insert_menu_items")

\* Line 189.
ReadMenuItems ==
    /\ pc = "read_menu_items"
    /\ menu_items_pk' = db.menu_items
    /\ UNCHANGED <<db, restaurants_id_map>>
    /\ Done("read_menu_items")

\* Lines 191-210.
InsertIngredients ==
    /\ pc = "insert_ingredients"
    /\ LET ingredients_fk == ChildFk(ingredients, restaurants_id_map, menu_items_pk)
       IN /\ ChildAccepted(ingredients_fk, db)
          /\ db' = [db EXCEPT !.ingredients = @ (+) ingredients_fk]
    /\ UNCHANGED <<restaurants_id_map, menu_items_pk>>
    /\ Done("insert_ingredients")

\* Lines 212-231.
InsertAllergens ==
    /\ pc = "insert_allergens"
    /\ LET allergens_fk == ChildFk(allergens, restaurants_id_map, menu_items_pk)
       IN /\ ChildAccepted(allergens_fk, db)
          /\ db' = [db EXCEPT !.allergens = @ (+) allergens_fk]
    /\ UNCHANGED <<restaurants_id_map, menu_items_pk>>
    /\ Done("insert_allergens")

\* Lines 233-252.
InsertPictures ==
    /\ pc = "insert_pictures"
    /\ LET pictures_fk == ChildFk(pictures, restaurants_id_map, menu_items_pk)
       IN /\ ChildAccepted(pictures_fk, db)
          /\ db' = [db EXCEPT !.pictures = @ (+) pictures_fk]
    /\ UNCHANGED <<restaurants_id_map, menu_items_pk>>
    /\ Done("insert_pictures")

\* A statement of the loader raises (the connection fails, the table rejects
\* the frame): nothing catches it and the job ends there.
Raise ==
    /\ \E i \in DOMAIN LoaderSteps : pc = LoaderSteps[i]
    /\ pc' = "aborted"
    /\ db' = OnFailure(db, db0)
    /\ UNCHANGED <<run, sheetVars, menu_items_clean, frameVars,
                   restaurants_id_map, menu_items_pk, db0, trace, others>>

\* The job is executed again on the same file against the same database.
Rerun ==
    /\ pc = "done"
    /\ run < MaxRuns
    /\ run' = run + 1
    /\ pc' = "normalize"
    /\ restaurants' = <<>>
    /\ menu_items' = {}
    /\ pictures' = {}
    /\ ingredients' = {}
    /\ allergens' = {}
    /\ restaurants_id_map' = NoMap
    /\ menu_items_pk' = {}
    /\ db0' = db
    /\ trace' = <<>>
    /\ UNCHANGED <<sheetVars, menu_items_clean, db, others>>

Load ==
    \/ Normalize
    \/ InsertRestaurants
    \/ ReadRestaurants
    \/ InsertMenuItems
    \/ ReadMenuItems
    \/ InsertIngredients
    \/ InsertAllergens
    \/ InsertPictures
    \/ Raise

\* One execution of the job against an empty schema.
Next == Load

Spec == Init /\ [][Next]_vars

\* The dict comprehension over every order of the read-back builds exactly the
\* maps of RestaurantsIdMaps.
ReadBackLemma ==
    pc = "read_restaurants" =>
        RestaurantsIdMaps(db.restaurants)
            = {ZipDict(restaurants_pk) : restaurants_pk \in ReadDatabase(db.restaurants)}

\* Executions of the job, one after the other, against the same database.
NextRerun == Load \/ Rerun

SpecRerun == Init /\ [][NextRerun]_vars

----------------------------------------------------------------------------
(* The database is shared: while the job runs, another session may delete  *)
(* a row that the foreign keys let it delete (ON DELETE is NO ACTION: a     *)
(* referenced row stays).                                                  *)

Referenced(m, d) ==
    \E r \in BagToSet(d.ingredients) \cup BagToSet(d.allergens) \cup BagToSet(d.pictures) :
        r.item_id = Some(m.id)

OtherSessionDeletes ==
    /\ others > 0
    /\ \E i \in DOMAIN LoaderSteps : pc = LoaderSteps[i]
    /\ \/ \E r \in db.restaurants :
             /\ \A m \in db.menu_items : m.restaurant_id # Some(r.id)
             /\ db' = [db EXCEPT !.restaurants = @ \ {r}]
       \/ \E m \in db.menu_items :
             /\ ~Referenced(m, db)
             /\ db' = [db EXCEPT !.menu_items = @ \ {m}]
    /\ others' = others - 1
    /\ UNCHANGED <<pc, run, sheetVars, menu_items_clean, frameVars,
                   restaurants_id_map, menu_items_pk, db0, trace>>

\* Cleaned rows that differ in product and restaurant only; one restaurant's
\* name reads as a number.
SharedRows ==
    [name : {Burger, Fries}, ingredients : {Beef}, allergens : {Nuts},
     picture : {Url}, restaurant : {Joe, Two}, category : {Main},
     valid_from : {DefaultValidFrom}]

SharedFrames == FramesOf(SharedRows)

InitShared == InitCleanedIn(SharedFrames) /\ others = MaxDeletes

NextShared == Load \/ Rerun \/ OtherSessionDeletes

SpecShared == InitShared /\ [][NextShared]_vars

----------------------------------------------------------------------------
(* The claims.                                                             *)

ChildTables == {"ingredients", "allergens", "pictures"}

ChildSteps == {"insert_ingredients", "insert_allergens", "insert_pictures"}

InsertSteps ==
    <<"insert_restaurants", "insert_menu_items", "insert_ingredients",
      "insert_allergens", "insert_pictures">>

\* The statement has completed in this run.
Completed(step) == \E i \in DOMAIN trace : trace[i] = step

\* In this run, statement a completed before statement b did.
Before(a, b) ==
    \A j \in DOMAIN trace : trace[j] = b => \E i \in 1..(j - 1) : trace[i] = a

\* The rows of a child table that reference menu_items row m.
Refs(m, table) ==
    BagCardinality([r \in {x \in BagToSet(table) : x.item_id = Some(m.id)} |-> table[r]])

Rows(d, t) ==
    IF t \in ChildTables THEN BagCardinality(d[t]) ELSE Cardinality(d[t])

\* C1: every non-null restaurant_id of a menu_items row is the id of a row of
\* restaurants, and every non-null item_id of an ingredients, allergens or
\* pictures row is the id of a row of menu_items, after any statement of any
\* run, other sessions deleting rows or not.
C1_ReferentialIntegrity ==
    /\ \A m \in db.menu_items :
          m.restaurant_id # NullId => \E r \in db.restaurants : Some(r.id) = m.restaurant_id
    /\ \A t \in ChildTables : \A c \in BagToSet(db[t]) :
          c.item_id # NullId => \E m \in db.menu_items : Some(m.id) = c.item_id

\* A second run has loaded all five tables although another session deleted
\* a row on the way.
C1_Witness ==
    /\ pc = "done"
    /\ run = 2
    /\ others = 0
    /\ \E m \in db.menu_items : Refs(m, db.ingredients) > 0

\* A menu item names a restaurant the map does not hold.
MenuItemMiss ==
    /\ pc = "insert_menu_items"
    /\ \E r \in menu_items : r.restaurant \notin DOMAIN restaurants_id_map

\* A child row has no menu item to join to.
ChildMiss(step, child) ==
    /\ pc = step
    /\ \E c \in child : \A m \in menu_items_pk : ~JoinKeysMatch(c, m, restaurants_id_map)

\* C2 as stated: a reference that does not resolve does not stop the insert;
\* the frame goes in with a null foreign key.
C2_Original ==
    /\ MenuItemMiss => ENABLED InsertMenuItems
    /\ ChildMiss("insert_ingredients", ingredients) => ENABLED InsertIngredients
    /\ ChildMiss("insert_allergens", allergens) => ENABLED InsertAllergens
    /\ ChildMiss("insert_pictures", pictures) => ENABLED InsertPictures

\* A menu item names a restaurant the map does not hold, and the name is no
\* number: its restaurant_id is null.
MenuItemNull ==
    /\ pc = "insert_menu_items"
    /\ \E r \in menu_items : Replace(r.restaurant, restaurants_id_map) = NullId

\* Every restaurant_id of menu_items_fk is the id of a restaurants row.
MenuItemsResolve ==
    \A r \in menu_items :
        \E p \in db.restaurants : Some(p.id) = Replace(r.restaurant, restaurants_id_map)

\* C2, amended: a child row with no menu item to join to gets a null item_id;
\* a menu item whose restaurant the map does not hold gets the name cast to
\* an integer as restaurant_id, null when the name is no number.  The columns
\* are NOT NULL and foreign keys: an insert of a frame with a null key, or
\* with a key of no row, cannot complete; the statement raises and none of
\* the frame's rows is inserted.  No stored row has a null foreign key.
C2_NullRejected ==
    /\ \A m \in db.menu_items : m.restaurant_id # NullId
    /\ \A t \in ChildTables : \A c \in BagToSet(db[t]) : c.item_id # NullId
    /\ MenuItemNull =>
          /\ \A f \in MenuItemsFkFrames(menu_items, restaurants_id_map) :
                \E i \in DOMAIN f : f[i].restaurant_id = NullId
          /\ ~ENABLED InsertMenuItems
          /\ ENABLED Raise
    /\ MenuItemMiss => (ENABLED InsertMenuItems <=> MenuItemsResolve)
    /\ ChildMiss("insert_ingredients", ingredients) =>
          /\ \E r \in BagToSet(ChildFk(ingredients, restaurants_id_map, menu_items_pk)) :
                r.item_id = NullId
          /\ ~ENABLED InsertIngredients
          /\ ENABLED Raise
    /\ ChildMiss("insert_allergens", allergens) =>
          /\ \E r \in BagToSet(ChildFk(allergens, restaurants_id_map, menu_items_pk)) :
                r.item_id = NullId
          /\ ~ENABLED InsertAllergens
          /\ ENABLED Raise
    /\ ChildMiss("insert_pictures", pictures) =>
          /\ \E r \in BagToSet(ChildFk(pictures, restaurants_id_map, menu_items_pk)) :
                r.item_id = NullId
          /\ ~ENABLED InsertPictures
          /\ ENABLED Raise

\* A menu item of a restaurant whose name reads as a number has been stored
\* under another restaurant, the one whose id is that number.
NumericNameUsedAsId ==
    \E m \in db.menu_items : \E p \in db.restaurants :
        /\ Some(p.id) = m.restaurant_id
        /\ p.name = Joe
        /\ \A c \in menu_items_clean : c.name = m.name => c.restaurant = Two

\* The job has stopped at the ingredients insert, an ingredients row having
\* no menu item to join to, and the table holds no row of this run.
C2_Witness ==
    /\ pc = "aborted"
    /\ trace = SubSeq(LoaderSteps, 1, 4)
    /\ \E c \in ingredients :
          \A m \in menu_items_pk : ~JoinKeysMatch(c, m, restaurants_id_map)
    /\ db.ingredients = db0.ingredients

\* The valid_from the specification gives a source row.
ExpectedValidFrom(date) ==
    IF date # Null /\ StrToDatetime(date) # Null
    THEN StrToDatetime(date) ELSE DefaultValidFrom

Mandatory(m) == m.name # Null /\ m.ingredients # Null /\ m.store # Null

Projection(m) ==
    [name |-> m.name, ingredients |-> m.ingredients, allergens |-> m.allergens,
     picture |-> m.picture, restaurant |-> m.store, category |-> m.fig,
     valid_from |-> ExpectedValidFrom(m.date)]

JoinKeepsHeight ==
    Len(LeftJoin(menu_items_raw, categories_raw, fig_sheet)) = Len(menu_items_raw)

\* C3 as stated: cleaning completes whatever the date column holds, and the
\* cleaned row of every kept source row carries the parsed date, or
\* 2023-01-01T00:00:00 for a missing or unparseable one (on sheets where no
\* row has several reference rows, which C5 is about).
C3_Original ==
    (pc # "clean" /\ JoinKeepsHeight) =>
        /\ pc # "failed"
        /\ \A i \in DOMAIN menu_items_raw :
              Mandatory(menu_items_raw[i]) =>
                  \E r \in menu_items_clean :
                      /\ r.name = menu_items_raw[i].name
                      /\ r.valid_from = ExpectedValidFrom(menu_items_raw[i].date)

\* A source row (name, store) with the three mandatory cells present.
FromSource(name, store) ==
    \E i \in DOMAIN menu_items_raw :
        /\ Mandatory(menu_items_raw[i])
        /\ menu_items_raw[i].name = name
        /\ menu_items_raw[i].store = store

\* C4: every cleaned row has name, ingredients and restaurant, and is the
\* projection of a source row that has all three; every row of the menu_items,
\* ingredients, allergens, pictures and restaurants frames comes from such a
\* source row: a source row missing one of the three contributes nothing.
C4_FilterInvariant ==
    /\ \A r \in menu_items_clean :
          /\ r.name # Null /\ r.ingredients # Null /\ r.restaurant # Null
          /\ \E i \in DOMAIN menu_items_raw :
                /\ Mandatory(menu_items_raw[i])
                /\ r.name = menu_items_raw[i].name
                /\ r.ingredients = menu_items_raw[i].ingredients
                /\ r.allergens = menu_items_raw[i].allergens
                /\ r.picture = menu_items_raw[i].picture
                /\ r.restaurant = menu_items_raw[i].store
    /\ \A x \in menu_items :
          x.name # Null /\ x.restaurant # Null /\ FromSource(x.name, x.restaurant)
    /\ \A x \in ingredients \cup allergens \cup pictures :
          x.product # Null /\ x.restaurant # Null /\ FromSource(x.product, x.restaurant)
    /\ \A x \in ingredients : x.text # Null
    /\ \A i \in DOMAIN restaurants :
          restaurants[i] # Null
              /\ \E j \in DOMAIN menu_items_raw :
                    Mandatory(menu_items_raw[j]) /\ menu_items_raw[j].store = restaurants[i]

\* The frames have been built from a sheet that has a complete row and a row
\* with a mandatory cell missing.
C4_Witness ==
    /\ pc = "insert_restaurants"
    /\ menu_items # {}
    /\ \E i \in DOMAIN menu_items_raw : ~Mandatory(menu_items_raw[i])
    /\ \E i \in DOMAIN menu_items_raw : menu_items_raw[i].name = Null

\* C5 as stated: whatever the reference sheet holds, cleaning produces exactly
\* the distinct projections of the source rows that have the three mandatory
\* cells (on a sheet of two or more rows whose dates all parse or are missing,
\* with 'Fig Category 1' on the menu-items sheet).
C5_Original ==
    (/\ pc # "clean"
     /\ fig_sheet = "menu"
     /\ Len(menu_items_raw) >= 2
     /\ ~ToDatetimeRaises(DateColumn(menu_items_raw))) =>
        /\ pc # "failed"
        /\ menu_items_clean =
              {Projection(menu_items_raw[i]) :
                  i \in {j \in DOMAIN menu_items_raw : Mandatory(menu_items_raw[j])}}

\* C6: in every run the restaurants insert completes before the restaurants
\* read-back, that before the menu_items insert, that before the menu_items
\* read-back, and that before every child insert; no menu_items row is added
\* before the map is read, no child row before menu_items is read back.
C6_LoadOrder ==
    /\ Before("insert_restaurants", "read_restaurants")
    /\ Before("read_restaurants", "insert_menu_items")
    /\ Before("insert_menu_items", "read_menu_items")
    /\ \A c \in ChildSteps : Before("read_menu_items", c)
    /\ db.menu_items # db0.menu_items => Completed("read_restaurants")
    /\ restaurants_id_map # NoMap => Completed("insert_restaurants")
    /\ menu_items_pk # {} => Completed("insert_menu_items")
    /\ \A t \in ChildTables : db[t] # db0[t] => Completed("read_menu_items")

\* All seven statements have completed and child rows were inserted.
C6_Witness ==
    /\ pc = "done"
    /\ Len(trace) = Len(LoaderSteps)
    /\ db.pictures # db0.pictures

\* C7: when the job has ended, the inserts that completed are a prefix of
\* restaurants, menu_items, ingredients, allergens, pictures (all five when
\* it ended normally); each of their tables holds the rows it held before the
\* run and the rows of this run's frame, every other table what it held
\* before the run; and after a failure no statement runs.
C7_NoRollback ==
    pc \in {"done", "aborted"} =>
        /\ \E k \in 0..Len(InsertSteps) :
              \A i \in DOMAIN InsertSteps : Completed(InsertSteps[i]) <=> i <= k
        /\ pc = "done" => \A i \in DOMAIN InsertSteps : Completed(InsertSteps[i])
        /\ db.restaurants =
              IF Completed("insert_restaurants")
              THEN db0.restaurants \cup RestaurantRows(restaurants, db0.rseq)
              ELSE db0.restaurants
        /\ IF Completed("insert_menu_items")
           THEN \E f \in MenuItemsFkFrames(menu_items, restaurants_id_map) :
                   db.menu_items = db0.menu_items \cup MenuItemRows(f, db0.mseq)
           ELSE db.menu_items = db0.menu_items
        /\ db.ingredients =
              IF Completed("insert_ingredients")
              THEN db0.ingredients (+) ChildFk(ingredients, restaurants_id_map, menu_items_pk)
              ELSE db0.ingredients
        /\ db.allergens =
              IF Completed("insert_allergens")
              THEN db0.allergens (+) ChildFk(allergens, restaurants_id_map, menu_items_pk)
              ELSE db0.allergens
        /\ db.pictures =
              IF Completed("insert_pictures")
              THEN db0.pictures (+) ChildFk(pictures, restaurants_id_map, menu_items_pk)
              ELSE db0.pictures
        /\ pc = "aborted" => ~ENABLED Load

\* The job failed at the ingredients insert: restaurants and menu_items hold
\* this run's rows, the child tables none.
C7_Witness ==
    /\ pc = "aborted"
    /\ Len(trace) = 4
    /\ db.restaurants # db0.restaurants
    /\ db.menu_items # db0.menu_items
    /\ db.ingredients = db0.ingredients

\* C8: once built, the restaurants frame holds every restaurant name of the
\* cleaned frame exactly once, in ascending byte order, whatever order
\* unique() returned the names in; and the rows the restaurants insert added
\* carry those names with ids that increase with the name.
C8_RestaurantsSorted ==
    pc # "normalize" =>
        /\ \A i \in 1..(Len(restaurants) - 1) : LexLess(restaurants[i], restaurants[i + 1])
        /\ {restaurants[i] : i \in DOMAIN restaurants} = RestaurantNames(menu_items_clean)
        /\ \A u \in Orders(RestaurantNames(menu_items_clean)) : SortByName(u) = restaurants
        /\ Completed("insert_restaurants") =>
              LET added == db.restaurants \ db0.restaurants
              IN /\ {a.name : a \in added} = RestaurantNames(menu_items_clean)
                 /\ Cardinality(added) = Len(restaurants)
                 /\ \A a, b \in added : LexLess(a.name, b.name) => a.id < b.id

\* Two restaurants were inserted, 'Joe' before 'al'.
C8_Witness ==
    /\ Completed("insert_restaurants")
    /\ restaurants = <<Joe, al>>
    /\ \E a, b \in db.restaurants : a.name = Joe /\ b.name = al /\ a.id < b.id

\* The name of the restaurant a menu_items row belongs to.
RestaurantOf(m) == (CHOOSE r \in db.restaurants : Some(r.id) = m.restaurant_id).name

CleanedFor(m) ==
    {r \in menu_items_clean : r.name = m.name /\ r.restaurant = RestaurantOf(m)}

\* The distinct values the cleaned frame has, for the menu item of m, in the
\* column a child table is built from.
DistinctTexts(m, t) ==
    IF t = "ingredients" THEN {r.ingredients : r \in CleanedFor(m)}
    ELSE IF t = "allergens" THEN {r.allergens : r \in CleanedFor(m)}
    ELSE {r.picture : r \in CleanedFor(m)}

\* C9 as stated: after a load every menu_items row is referenced by at most
\* one row of each child table.
C9_Original ==
    pc = "done" =>
        \A m \in db.menu_items : \A t \in ChildTables : Refs(m, db[t]) <= 1

\* C9, amended: after a first load into an empty schema, every menu_items row
\* is referenced by exactly as many ingredients (allergens, pictures) rows as
\* the cleaned frame has distinct ingredients (allergens, picture) values for
\* the row's (name, restaurant): by one only when that pair has one value.
C9_RefsAreDistinctValues ==
    (pc = "done" /\ run = 1) =>
        \A m \in db.menu_items : \A t \in ChildTables :
            Refs(m, db[t]) = Cardinality(DistinctTexts(m, t))

\* A first load in which a menu_items row is referenced by two ingredients rows.
C9_Witness ==
    /\ pc = "done"
    /\ run = 1
    /\ \E m \in db.menu_items : Refs(m, db.ingredients) = 2

\* C10 as stated: a second run on the same input adds to every table as many
\* rows as the first run did.
C10_Original ==
    (pc = "done" /\ run = 2) =>
        \A t \in DOMAIN EmptyDb \ {"rseq", "mseq"} :
            Rows(db, t) - Rows(db0, t) = Rows(db0, t)

====
